---- MODULE Spec2Model ----
(***************************************************************************)
(* Model of app.py: the load_data cleaning pipeline and the per-rerun      *)
(* view selection and grouped aggregation of the dashboard script.         *)
(*                                                                         *)
(* Representation.                                                         *)
(*  - A raw CSV cell is a record [t, v]: t = "date" (v = day ordinal),     *)
(*    t = "num" (v = the number), t = "str" (text that is neither) or      *)
(*    t = "nan" (empty cell).                                              *)
(*  - A parsed cell is an option: {} is NaN/NaT, {x} is the value x.       *)
(*  - float64 numbers are fixed-point integers in units of 1/Scale, so     *)
(*    that medians (halves) and the 0.95 quantile (twentieths) are exact.  *)
(*  - late_ratio is kept in hundredths (66.67 is 6667).                    *)
(*  - year_month and the Trends tab (lines 98, 255-352) are not modelled.  *)
(*  - sort_values is called with its default kind, "quicksort", which      *)
(*    pandas does not document as stable: the order it gives to equal      *)
(*    values is a nondeterministic choice (SortValuesDesc).                *)
(*  - A multiselect holds at most MaxSelected options, a bound of the      *)
(*    model; the files read are bounded by the *Rows definitions.          *)
(***************************************************************************)
EXTENDS Integers, Sequences, FiniteSets, TLC

VARIABLES csv, columns, df, weight_cap, pc,
          country_filter, mode_filter, df_filtered,
          country_stats, top_countries, shipment_stats, product_stats

vars == <<csv, columns, df, weight_cap, pc, country_filter, mode_filter,
          df_filtered, country_stats, top_countries, shipment_stats,
          product_stats>>

\* ------------------------------------------------------------------ bounds
DateRows == 2
WeightRows == 3
ViewRows == 3
AggRows == 3
MaxSelected == 2

\* fixed-point unit: 2 (median) * 20 * 20 (two successive 0.95 quantiles)
Scale == 2 * 20 * 20

\* ------------------------------------------------------- program constants
MaxLeadDays == 365
MaxDelayDays == 365
MinDelayDays == -90
QuantileNum == 19
QuantileDen == 20
TopCountries == 10
TopProducts == 15

date_cols == {"PQ First Sent to Client Date", "PO Sent to Vendor Date",
              "Scheduled Delivery Date", "Delivered to Client Date",
              "Delivery Recorded Date"}

numeric_cols == {"Freight Cost (USD)", "Line Item Insurance (USD)",
                 "Weight (Kilograms)", "Line Item Quantity",
                 "Line Item Value", "Pack Price", "Unit Price"}

\* ---------------------------------------------------------------- options
NaN == {}
Val(o) == CHOOSE x \in o : TRUE
Some(x) == {x}

\* pd.to_datetime(errors="coerce") of one cell
to_datetime(cell) == IF cell.t = "date" THEN Some(cell.v) ELSE NaN

\* pd.to_numeric(errors="coerce") of one raw cell
to_numeric(cell) == IF cell.t = "num" THEN Some(cell.v) ELSE NaN

\* (a - b).dt.days of two parsed dates
DaysBetween(a, b) == IF a = NaN \/ b = NaN THEN NaN ELSE Some(Val(a) - Val(b))

\* ------------------------------------------------------- sequence helpers
RECURSIVE InsertSorted(_, _)
InsertSorted(x, s) ==
    IF s = <<>> THEN <<x>>
    ELSE IF x <= Head(s) THEN <<x>> \o s
    ELSE <<Head(s)>> \o InsertSorted(x, Tail(s))

RECURSIVE SortAsc(_)
SortAsc(s) == IF s = <<>> THEN <<>> ELSE InsertSorted(Head(s), SortAsc(Tail(s)))

RECURSIVE SumSeq(_)
SumSeq(s) == IF s = <<>> THEN 0 ELSE Head(s) + SumSeq(Tail(s))

\* the present values of a column, in row order
RECURSIVE Present(_, _)
Present(rows, col) ==
    IF rows = <<>> THEN <<>>
    ELSE (IF Head(rows)[col] = NaN THEN <<>> ELSE <<Val(Head(rows)[col])>>)
         \o Present(Tail(rows), col)

\* Series.median(): NaN skipped, mean of the two middle values for an even count
Median(rows, col) ==
    LET s == SortAsc(Present(rows, col))
        n == Len(s)
    IN IF n = 0 THEN NaN
       ELSE IF n % 2 = 1 THEN Some(s[(n + 1) \div 2])
       ELSE Some((s[n \div 2] + s[n \div 2 + 1]) \div 2)

\* Series.quantile(0.95), linear interpolation at position 0.95 * (n - 1)
Quantile(rows, col) ==
    LET s == SortAsc(Present(rows, col))
        n == Len(s)
        h == (n - 1) * QuantileNum
        i == h \div QuantileDen
        r == h % QuantileDen
    IN IF n = 0 THEN NaN
       ELSE IF r = 0 THEN Some(s[i + 1])
       ELSE Some(s[i + 1] + (r * (s[i + 2] - s[i + 1])) \div QuantileDen)

\* ------------------------------------------------------ load_data, by step
\* lines 49-51
ParseDates(cols, rows) ==
    [n_ \in DOMAIN rows |-> LET r == rows[n_] IN
        [c \in DOMAIN r |->
            IF c \in date_cols /\ c \in cols THEN to_datetime(r[c]) ELSE r[c]]]

\* mutant: only the scheduled date is required
HasScheduledDate(r) == r["Scheduled Delivery Date"] # NaN

\* line 53
HasBothDates(r) ==
    /\ r["Scheduled Delivery Date"] # NaN
    /\ r["Delivered to Client Date"] # NaN

DropNaDates(rows) == SelectSeq(rows, HasBothDates)

\* lines 55-67
DeriveDays(cols, rows) ==
    [n_ \in DOMAIN rows |-> LET r == rows[n_] IN
        r @@ ("lead_time_days" :>
                 (IF "PO Sent to Vendor Date" \in cols
                  THEN DaysBetween(r["Delivered to Client Date"],
                                   r["PO Sent to Vendor Date"])
                  ELSE NaN))
          @@ ("delay_days" :>
                 DaysBetween(r["Delivered to Client Date"],
                             r["Scheduled Delivery Date"]))]

\* mutant: the lower limit of the lead time is not applied
MaskLeadUpperOnly(v) ==
    IF v # NaN /\ Val(v) > MaxLeadDays THEN NaN ELSE v

\* lines 69-70
MaskLead(v) ==
    IF v # NaN /\ (Val(v) < 0 \/ Val(v) > MaxLeadDays) THEN NaN ELSE v

\* mutant: the lower limit of the delay is not applied
MaskDelayUpperOnly(v) ==
    IF v # NaN /\ Val(v) > MaxDelayDays THEN NaN ELSE v

\* lines 72-73
MaskDelay(v) ==
    IF v # NaN /\ (Val(v) > MaxDelayDays \/ Val(v) < MinDelayDays) THEN NaN ELSE v

MaskRanges(rows) ==
    [n_ \in DOMAIN rows |-> LET r == rows[n_] IN
        [r EXCEPT !["lead_time_days"] = MaskLead(@),
                  !["delay_days"] = MaskDelay(@)]]

\* fillna(median) of one coerced cell
FillNa(v, med) == IF v = NaN THEN med ELSE v

\* lines 86-89
ImputeNumeric(cols, rows) ==
    LET coerced == [n_ \in DOMAIN rows |-> LET r == rows[n_] IN
            [c \in DOMAIN r |->
                IF c \in numeric_cols /\ c \in cols THEN to_numeric(r[c]) ELSE r[c]]]
    IN [n_ \in DOMAIN coerced |-> LET r == coerced[n_] IN
            [c \in DOMAIN r |->
                IF c \in numeric_cols /\ c \in cols
                THEN FillNa(r[c], Median(coerced, c)) ELSE r[c]]]

\* mutant: a zero weight is kept
NonNegativeWeight(r) ==
    r["Weight (Kilograms)"] # NaN /\ Val(r["Weight (Kilograms)"]) >= 0

\* line 92: a NaN weight compares False and is dropped with the non-positive ones
PositiveWeight(r) ==
    r["Weight (Kilograms)"] # NaN /\ Val(r["Weight (Kilograms)"]) > 0

WeightFilter(rows) == SelectSeq(rows, PositiveWeight)

\* line 94
ClampWeight(w, cap) == IF w # NaN /\ cap # NaN /\ Val(w) > Val(cap) THEN cap ELSE w

\* mutant: the rows above the ceiling are dropped instead of clamped
DropAbove(rows, cap) ==
    SelectSeq(rows, LAMBDA r :
        ~(r["Weight (Kilograms)"] # NaN /\ cap # NaN
            /\ Val(r["Weight (Kilograms)"]) > Val(cap)))

Clamp(rows, cap) ==
    [n_ \in DOMAIN rows |-> LET r == rows[n_] IN
        [r EXCEPT !["Weight (Kilograms)"] = ClampWeight(@, cap)]]

\* line 97: a NaN delay compares False
IsLate(delay) == IF delay # NaN /\ Val(delay) > 0 THEN 1 ELSE 0

Enrich(rows) ==
    [n_ \in DOMAIN rows |-> LET r == rows[n_] IN
        r @@ ("is_late" :> IsLate(r["delay_days"]))]

\* --------------------------------------------------------- the whole of load_data
\* lines 91-94: the ceiling, NaN when the column is missing or no row remains
WeightCap(cols, rows) ==
    IF "Weight (Kilograms)" \in cols
    THEN Quantile(WeightFilter(rows), "Weight (Kilograms)") ELSE NaN

WeightStep(cols, rows) ==
    IF "Weight (Kilograms)" \in cols
    THEN Clamp(WeightFilter(rows), WeightCap(cols, rows)) ELSE rows

Imputed(cols, rows) ==
    ImputeNumeric(cols, MaskRanges(DeriveDays(cols, DropNaDates(ParseDates(cols, rows)))))

load_data(cols, rows) == Enrich(WeightStep(cols, Imputed(cols, rows)))

\* ------------------------------------------------------------- categoricals
\* the categorical values of the model, each list in ascending str order
CountryOrder == <<"Angola", "Benin", "Congo", "Ghana", "Haiti", "Kenya",
                  "Mali", "Nigeria", "Rwanda", "Togo", "Zambia">>
ModeOrder == <<"Air", "Ocean", "Truck">>
ItemOrder == <<"Abacavir", "Didanosine", "Efavirenz", "HIV test", "Indinavir",
               "Lamivudine", "Lopinavir", "Malaria kit", "Nelfinavir",
               "Nevirapine", "Ritonavir", "Saquinavir", "Stavudine",
               "Tenofovir", "Zalcitabine", "Zidovudine">>

OrderOf(col) ==
    IF col = "Country" THEN CountryOrder
    ELSE IF col = "Shipment Mode" THEN ModeOrder ELSE ItemOrder

\* df[col].dropna().unique()
Uniques(rows, col) ==
    {Val(rows[i][col]) : i \in {j \in 1..Len(rows) : rows[j][col] # NaN}}

\* sorted(...) of a set of values of column col
SortedKeys(rows, col) == SelectSeq(OrderOf(col), LAMBDA k : k \in Uniques(rows, col))

\* mutant: an empty selection excludes every row
df_filter_strict(rows, cf, mf) ==
    SelectSeq(rows, LAMBDA r :
        /\ r["Country"] # NaN /\ Val(r["Country"]) \in cf
        /\ r["Shipment Mode"] # NaN /\ Val(r["Shipment Mode"]) \in mf)

\* ------------------------------------------------------------ view selection
\* lines 148-152
df_filter(rows, cf, mf) ==
    LET byCountry == IF cf # {}
                     THEN SelectSeq(rows, LAMBDA r :
                              r["Country"] # NaN /\ Val(r["Country"]) \in cf)
                     ELSE rows
    IN IF mf # {}
       THEN SelectSeq(byCountry, LAMBDA r :
                r["Shipment Mode"] # NaN /\ Val(r["Shipment Mode"]) \in mf)
       ELSE byCountry

\* mutant: rows with an absent key are put in every group
GroupWithAbsent(rows, col, k) ==
    SelectSeq(rows, LAMBDA r : r[col] = Some(k) \/ r[col] = NaN)

\* ---------------------------------------------------------------- aggregator
\* the rows of one group
Group(rows, col, k) == SelectSeq(rows, LAMBDA r : r[col] = Some(k))

\* "sum": NaN skipped
AggSum(g, col) == SumSeq(Present(g, col))

\* "mean": NaN skipped, NaN for no value; kept as the pair <<sum, count>>
AggMean(g, col) ==
    LET p == Present(g, col)
    IN IF Len(p) = 0 THEN NaN ELSE Some(<<SumSeq(p), Len(p)>>)

\* round(n / d, 0), half to even (numpy's round)
RoundHalfEven(n, d) ==
    LET q == n \div d
        r == n % d
    IN IF 2 * r < d THEN q
       ELSE IF 2 * r > d THEN q + 1
       ELSE IF q % 2 = 0 THEN q ELSE q + 1

\* mutant: the ratio is truncated, not rounded
LateRatioTruncated(late, total) == (late * 100 * 100) \div total

\* (late / total * 100).round(2), in hundredths
LateRatio(late, total) == RoundHalfEven(late * 100 * 100, total)

\* "sum" of is_late over a group
LateCount(g) == SumSeq([n_ \in DOMAIN g |-> LET r == g[n_] IN r["is_late"]])

\* lines 161-177
CountryStats(rows) ==
    LET keys == SortedKeys(rows, "Country")
    IN [i \in 1..Len(keys) |->
         LET g == Group(rows, "Country", keys[i])
         IN [Country |-> keys[i],
             total_shipments |-> Len(g),
             late_shipments |-> LateCount(g),
             avg_lead |-> AggMean(g, "lead_time_days"),
             avg_delay |-> AggMean(g, "delay_days"),
             total_quantity |-> AggSum(g, "Line Item Quantity"),
             total_value |-> AggSum(g, "Line Item Value"),
             late_ratio |-> LateRatio(LateCount(g), Len(g))]]

\* lines 206-220
ShipmentStats(rows) ==
    LET keys == SortedKeys(rows, "Shipment Mode")
    IN [i \in 1..Len(keys) |->
         LET g == Group(rows, "Shipment Mode", keys[i])
         IN [Shipment_Mode |-> keys[i],
             total_shipments |-> Len(g),
             late_shipments |-> LateCount(g),
             avg_lead |-> AggMean(g, "lead_time_days"),
             avg_delay |-> AggMean(g, "delay_days"),
             late_ratio |-> LateRatio(LateCount(g), Len(g))]]

\* lines 237-239: the summed quantity per product, in group order
ProductSums(rows) ==
    LET keys == SortedKeys(rows, "Item Description")
    IN [i \in 1..Len(keys) |->
         [key |-> keys[i],
          value |-> AggSum(Group(rows, "Item Description", keys[i]),
                           "Line Item Quantity")]]

\* sort_values(ascending=False) with the default kind="quicksort", which is not
\* a stable sort: every descending arrangement of the entries is a possible
\* result.  Entries are <<key, value>> records in group order.
RECURSIVE DescOrders(_, _)
DescOrders(s, left) ==
    IF left = {} THEN {<<>>}
    ELSE LET top == {i \in left : \A j \in left : s[j].value <= s[i].value}
         IN UNION {{<<s[i]>> \o t : t \in DescOrders(s, left \ {i})} : i \in top}

SortValuesDesc(s) == DescOrders(s, DOMAIN s)

\* mutant: the last k entries are taken
TailK(s, k) == IF Len(s) <= k THEN s ELSE SubSeq(s, Len(s) - k + 1, Len(s))

\* .head(k)
HeadK(s, k) == IF Len(s) <= k THEN s ELSE SubSeq(s, 1, k)

\* lines 185-189: country_stats reduced to its total_quantity column
QuantityByCountry(stats) ==
    [i \in 1..Len(stats) |-> [key |-> stats[i].Country,
                              value |-> stats[i].total_quantity]]

\* ------------------------------------------------------------------- actions
\* lines 40-53: read_csv, the date parse and the drop of undated rows
LoadDates ==
    /\ pc = "read"
    /\ df' = DropNaDates(ParseDates(columns, csv))
    /\ pc' = "dated"
    /\ UNCHANGED <<csv, columns, weight_cap, country_filter, mode_filter,
                   df_filtered, country_stats, top_countries, shipment_stats,
                   product_stats>>

\* lines 55-73: lead_time_days and delay_days, then their range masks
LoadDays ==
    /\ pc = "dated"
    /\ df' = MaskRanges(DeriveDays(columns, df))
    /\ pc' = "derived"
    /\ UNCHANGED <<csv, columns, weight_cap, country_filter, mode_filter,
                   df_filtered, country_stats, top_countries, shipment_stats,
                   product_stats>>

\* lines 76-89: coercion and median imputation of the numeric columns
LoadImpute ==
    /\ pc = "derived"
    /\ df' = ImputeNumeric(columns, df)
    /\ pc' = "imputed"
    /\ UNCHANGED <<csv, columns, weight_cap, country_filter, mode_filter,
                   df_filtered, country_stats, top_countries, shipment_stats,
                   product_stats>>

\* lines 91-100: weight filter and clamp, is_late, return
LoadWeight ==
    /\ pc = "imputed"
    /\ weight_cap' = WeightCap(columns, df)
    /\ df' = Enrich(WeightStep(columns, df))
    /\ pc' = "loaded"
    /\ UNCHANGED <<csv, columns, country_filter, mode_filter,
                   df_filtered, country_stats, top_countries, shipment_stats,
                   product_stats>>

\* lines 136-242: one run of the script body under the selections cf and mf
Script(cf, mf) ==
    LET f == df_filter(df, cf, mf)
        stats == CountryStats(f)
    IN /\ country_filter' = cf
       /\ mode_filter' = mf
       /\ df_filtered' = f
       /\ country_stats' = stats
       /\ top_countries' \in {HeadK(o, TopCountries) :
                                 o \in SortValuesDesc(QuantityByCountry(stats))}
       /\ shipment_stats' = ShipmentStats(f)
       /\ product_stats' \in {HeadK(o, TopProducts) :
                                 o \in SortValuesDesc(ProductSums(f))}
       /\ pc' = "shown"
       /\ UNCHANGED <<csv, columns, df, weight_cap>>

\* the first run: both multiselects at their default, nothing selected
FirstRun ==
    /\ pc = "loaded"
    /\ Script({}, {})

\* a widget interaction: one option of one multiselect is picked or removed
\* and the script reruns; load_data is served from the cache
Toggle(sel, x) == IF x \in sel THEN sel \ {x} ELSE sel \cup {x}

Interact ==
    /\ pc = "shown"
    /\ \/ \E c \in Uniques(df, "Country") :
             /\ Cardinality(Toggle(country_filter, c)) <= MaxSelected
             /\ Script(Toggle(country_filter, c), mode_filter)
       \/ \E m \in Uniques(df, "Shipment Mode") :
             /\ Cardinality(Toggle(mode_filter, m)) <= MaxSelected
             /\ Script(country_filter, Toggle(mode_filter, m))

Next == LoadDates \/ LoadDays \/ LoadImpute \/ LoadWeight \/ FirstRun \/ Interact

\* -------------------------------------------------------------- the CSV files
AllColumns == date_cols \cup numeric_cols \cup
              {"ID", "Country", "Shipment Mode", "Item Description"}

Date(d) == [t |-> "date", v |-> d]
Num(x) == [t |-> "num", v |-> x * Scale]
Text == [t |-> "str", v |-> 0]
Empty == [t |-> "nan", v |-> 0]

BaseRow(i) ==
    [c \in AllColumns |->
        IF c = "ID" THEN [t |-> "num", v |-> i]
        ELSE IF c \in date_cols THEN Date(100)
        ELSE IF c \in numeric_cols THEN Num(1)
        ELSE IF c = "Country" THEN Some("Togo")
        ELSE IF c = "Shipment Mode" THEN Some("Air")
        ELSE Some("Abacavir")]

\* row i of a file: the base row with the cells of variant o, cut to the columns
MakeRow(cols, i, o) ==
    [c \in cols |-> IF c \in DOMAIN o THEN o[c] ELSE BaseRow(i)[c]]

\* the files of n rows whose row i takes its cells from vs[i]
RECURSIVE FilesOf(_, _, _)
FilesOf(cols, vs, n) ==
    IF n = 0 THEN {<<>>}
    ELSE {Append(f, MakeRow(cols, n, o)) : f \in FilesOf(cols, vs, n - 1), o \in vs[n]}

InitWith(files, cols) ==
    /\ csv \in files
    /\ columns = cols
    /\ df = <<>>
    /\ weight_cap = NaN
    /\ pc = "read"
    /\ country_filter = {}
    /\ mode_filter = {}
    /\ df_filtered = <<>>
    /\ country_stats = <<>>
    /\ top_countries = <<>>
    /\ shipment_stats = <<>>
    /\ product_stats = <<>>

\* dates on every side of the masks' limits
DateVariants(i) ==
    {("Scheduled Delivery Date" :> s) @@ ("Delivered to Client Date" :> d)
        @@ ("PO Sent to Vendor Date" :> p) :
        s \in {Text, Date(91)},
        d \in {Empty, Date(0), Date(1), Date(456), Date(457)},
        p \in {Empty, Date(91), Date(457)}}

NoPOVariants(i) ==
    {("Scheduled Delivery Date" :> s) @@ ("Delivered to Client Date" :> d) :
        s \in {Text, Date(91)},
        d \in {Empty, Date(0), Date(1), Date(456), Date(457)}}

InitDates ==
    \/ \E n \in 1..DateRows :
          InitWith(FilesOf(AllColumns, [i \in 1..n |-> DateVariants(i)], n),
                   AllColumns)
    \/ \E n \in 1..DateRows :
          InitWith(FilesOf(AllColumns \ {"PO Sent to Vendor Date"},
                           [i \in 1..n |-> NoPOVariants(i)], n),
                   AllColumns \ {"PO Sent to Vendor Date"})

SpecDates == InitDates /\ [][Next]_vars

\* weights absent, non-positive, ordinary and extreme; a second numeric column
\* with absent cells; a row the date drop removes
WeightVariants(i) ==
    {("Weight (Kilograms)" :> w) @@ ("Freight Cost (USD)" :> x) :
        w \in {Text, Num(0), Num(1), Num(2), Num(100)},
        x \in {Num(5), Empty}}
    \cup {("Weight (Kilograms)" :> Num(100)) @@ ("Freight Cost (USD)" :> Num(9))
             @@ ("Scheduled Delivery Date" :> Empty)}

NoWeightVariants(i) ==
    {("Freight Cost (USD)" :> x) : x \in {Num(5), Num(7), Empty}}

InitWeights ==
    \/ \E n \in 1..WeightRows :
          InitWith(FilesOf(AllColumns, [i \in 1..n |-> WeightVariants(i)], n),
                   AllColumns)
    \/ \E n \in 1..WeightRows :
          InitWith(FilesOf(AllColumns \ {"Weight (Kilograms)"},
                           [i \in 1..n |-> NoWeightVariants(i)], n),
                   AllColumns \ {"Weight (Kilograms)"})

SpecWeights == InitWeights /\ [][Next]_vars

\* both filter dimensions, each with two values and the absent one
ViewVariants(i) ==
    {("Country" :> c) @@ ("Shipment Mode" :> m) :
        c \in {Some("Togo"), Some("Benin"), NaN},
        m \in {Some("Air"), Some("Truck"), NaN}}

InitView ==
    \E n \in 1..ViewRows :
       InitWith(FilesOf(AllColumns, [i \in 1..n |-> ViewVariants(i)], n), AllColumns)

SpecView == InitView /\ [][Next]_vars

\* groups of both dimensions with late, early and masked delays
AggVariants(i) ==
    {("Country" :> k[1]) @@ ("Shipment Mode" :> k[2])
        @@ ("Delivered to Client Date" :> d) :
        k \in {<<Some("Togo"), Some("Air")>>, <<Some("Benin"), NaN>>,
               <<NaN, Some("Truck")>>},
        d \in {Date(98), Date(105), Date(500)}}

InitAgg ==
    \E n \in 1..AggRows :
       InitWith(FilesOf(AllColumns, [i \in 1..n |-> AggVariants(i)], n), AllColumns)

SpecAgg == InitAgg /\ [][Next]_vars

\* one row per product, more products than TopProducts and more countries than
\* TopCountries; the quantities are distinct but for the rows of TieRows, which
\* may tie with the next row
TopRows == TopProducts + 1
TieRows == {1, 6, 10}
Cyc(order, i) == order[((i - 1) % Len(order)) + 1]

TopVariants(i) ==
    {("Country" :> Some(Cyc(CountryOrder, i)))
        @@ ("Item Description" :> Some(Cyc(ItemOrder, i)))
        @@ ("Line Item Quantity" :> Num(i + e)) :
        e \in IF i \in TieRows THEN {0, 1} ELSE {0}}

InitTop ==
    InitWith(FilesOf(AllColumns, [i \in 1..TopRows |-> TopVariants(i)], TopRows),
             AllColumns)

SpecTop == InitTop /\ [][Next]_vars

\* ================================================================== claims
Loaded == pc \in {"loaded", "shown"}
RowId(r) == r["ID"].v
Ids(rows) == {RowId(rows[i]) : i \in DOMAIN rows}

\* the CSV rows whose two required dates both parse
IsDateCell(i, c) == csv[i][c].t = "date"
ValidIds ==
    {i \in DOMAIN csv : IsDateCell(i, "Scheduled Delivery Date")
                        /\ IsDateCell(i, "Delivered to Client Date")}
ValidWith(col, k) == {i \in ValidIds : csv[i][col] = Some(k)}

\* C1: every record of the set load_data builds has both required dates; a raw
\* record with either date missing or unparseable is in neither the set nor
\* any group of an aggregate table (no group counts more than the validly
\* dated records of its key, no sum exceeds theirs).
C1_RequiredDates ==
    /\ pc # "read" =>
          /\ \A i \in DOMAIN df : /\ df[i]["Scheduled Delivery Date"] # NaN
                                  /\ df[i]["Delivered to Client Date"] # NaN
          /\ Ids(df) \subseteq ValidIds
    /\ pc = "shown" =>
          /\ Ids(df_filtered) \subseteq ValidIds
          /\ \A j \in DOMAIN country_stats :
                country_stats[j].total_shipments
                    <= Cardinality(ValidWith("Country", country_stats[j].Country))
          /\ \A j \in DOMAIN shipment_stats :
                shipment_stats[j].total_shipments
                    <= Cardinality(ValidWith("Shipment Mode",
                                             shipment_stats[j].Shipment_Mode))
          /\ \A j \in DOMAIN product_stats :
                product_stats[j].value
                    <= Scale * Cardinality(ValidWith("Item Description",
                                                     product_stats[j].key))

\* a file with a dropped and a kept record, aggregated
C1_Witness ==
    /\ pc = "shown"
    /\ ValidIds # DOMAIN csv
    /\ Len(df) > 0
    /\ Len(country_stats) > 0

\* the difference of the two required dates of a retained record
RawDelay(r) == Val(r["Delivered to Client Date"]) - Val(r["Scheduled Delivery Date"])
DelayInRange(d) == d >= -90 /\ d <= 365

\* C2 (as stated): every retained record has a delay_days when is_late is
\* computed.
C2_DelayAlwaysPresent ==
    Loaded => \A i \in DOMAIN df : df[i]["delay_days"] # NaN

\* C2 (amended): a retained record has delay_days = delivered - scheduled when
\* that difference is within [-90, 365]; otherwise the record is kept with
\* delay_days absent and is_late = 0.
C2_DelayPresentIffInRange ==
    Loaded =>
       \A i \in DOMAIN df :
          /\ DelayInRange(RawDelay(df[i])) => df[i]["delay_days"] = {RawDelay(df[i])}
          /\ ~DelayInRange(RawDelay(df[i])) =>
                df[i]["delay_days"] = NaN /\ df[i]["is_late"] = 0

\* a retained record whose delay is absent, beside one whose delay is present
C2_Witness ==
    /\ Loaded
    /\ \E i \in DOMAIN df : df[i]["delay_days"] = NaN /\ RawDelay(df[i]) < -90
    /\ \E i \in DOMAIN df : df[i]["delay_days"] # NaN

\* ---- C3: the pipeline run again on its own output
ToRaw(cols, rows) ==
    [n_ \in DOMAIN rows |-> LET r == rows[n_] IN
        [c \in DOMAIN r \ {"lead_time_days", "delay_days", "is_late"} |->
            IF c \in date_cols /\ c \in cols
            THEN (IF r[c] = NaN THEN Empty ELSE [t |-> "date", v |-> Val(r[c])])
            ELSE IF c \in numeric_cols /\ c \in cols
            THEN (IF r[c] = NaN THEN Empty ELSE [t |-> "num", v |-> Val(r[c])])
            ELSE r[c]]]

SecondRun == load_data(columns, ToRaw(columns, df))
SecondCap == WeightCap(columns, Imputed(columns, ToRaw(columns, df)))

\* the weights the first run had before its clamp
Unclamped == WeightFilter(Imputed(columns, csv))
NothingClamped ==
    weight_cap = NaN
    \/ \A i \in DOMAIN Unclamped :
          Val(Unclamped[i]["Weight (Kilograms)"]) <= Val(weight_cap)

CapLeq(a, b) == IF a = NaN \/ b = NaN THEN a = b ELSE Val(a) <= Val(b)

\* C3 (as stated): a second run yields the same record count and the same
\* 95th-percentile ceiling.
C3_SameCountSameCeiling ==
    pc = "loaded" => Len(SecondRun) = Len(df) /\ SecondCap = weight_cap

\* C3 (amended): a second run yields the same record count and a ceiling that
\* is never above the first run's, and equal to it when the first run clamped
\* no weight.
C3_SameCountCeilingNotAbove ==
    pc = "loaded" =>
       /\ Len(SecondRun) = Len(df)
       /\ CapLeq(SecondCap, weight_cap)
       /\ NothingClamped => SecondCap = weight_cap

\* a first run that clamped a weight, after which the ceiling moves down
C3_Witness ==
    /\ pc = "loaded"
    /\ Len(df) >= 2
    /\ ~NothingClamped
    /\ weight_cap # NaN /\ SecondCap # NaN /\ Val(SecondCap) < Val(weight_cap)

\* C4: after the imputation no record misses a value in any of the seven
\* numeric columns the file has, also when a column has no value at all.
C4_NoMissingNumeric ==
    pc = "imputed" =>
       \A i \in DOMAIN df : \A c \in numeric_cols \cap columns : df[i][c] # NaN

\* C5: every record has 0 < weight <= ceiling, the ceiling being the 0.95
\* quantile of the weights left by the weight > 0 filter, before the clamp;
\* records with weight <= 0 are dropped, heavier ones kept at the ceiling.
C5_WeightRange ==
    (Loaded /\ "Weight (Kilograms)" \in columns) =>
       LET before == Imputed(columns, csv)
           w(r) == r["Weight (Kilograms)"]
       IN /\ \A i \in DOMAIN df :
                w(df[i]) # NaN /\ Val(w(df[i])) > 0 /\ Val(w(df[i])) <= Val(weight_cap)
          /\ weight_cap = Quantile(SelectSeq(before, LAMBDA r :
                               w(r) # NaN /\ Val(w(r)) > 0), "Weight (Kilograms)")
          /\ Ids(df) = {RowId(before[i]) :
                           i \in {j \in DOMAIN before :
                                     w(before[j]) # NaN /\ Val(w(before[j])) > 0}}
          /\ Len(df) = Cardinality(Ids(df))
          /\ \A i \in DOMAIN df : \A j \in DOMAIN before :
                RowId(before[j]) = RowId(df[i]) =>
                   w(df[i]) = IF Val(w(before[j])) > Val(weight_cap)
                              THEN weight_cap ELSE w(before[j])

\* a file with a record dropped for its weight and a record clamped
C5_Witness ==
    /\ Loaded /\ "Weight (Kilograms)" \in columns
    /\ \E i \in DOMAIN csv : csv[i]["Weight (Kilograms)"] = Num(0)
    /\ \E i \in DOMAIN df :
          /\ csv[RowId(df[i])]["Weight (Kilograms)"] = Num(100)
          /\ df[i]["Weight (Kilograms)"] = weight_cap
          /\ Val(weight_cap) < 100 * Scale

\* C6: lead_time_days is absent or within [0, 365], delay_days is absent or
\* within [-90, 365]; a value outside its range is made absent and the record
\* stays: the range steps drop no record.
C6_RangesMasked ==
    pc \in {"derived", "imputed", "loaded", "shown"} =>
       /\ \A i \in DOMAIN df :
             LET lead == df[i]["lead_time_days"]
                 delay == df[i]["delay_days"]
             IN /\ lead = NaN \/ (Val(lead) >= 0 /\ Val(lead) <= 365)
                /\ delay = NaN \/ (Val(delay) >= -90 /\ Val(delay) <= 365)
                /\ ("PO Sent to Vendor Date" \in columns
                      /\ IsDateCell(RowId(df[i]), "PO Sent to Vendor Date")) =>
                      LET d == Val(df[i]["Delivered to Client Date"])
                               - csv[RowId(df[i])]["PO Sent to Vendor Date"].v
                      IN lead = IF d >= 0 /\ d <= 365 THEN {d} ELSE NaN
       /\ pc = "derived" => Ids(df) = ValidIds /\ Len(df) = Cardinality(ValidIds)

\* a record kept with its out-of-range lead time and delay made absent
C6_Witness ==
    /\ pc = "derived"
    /\ \E i \in DOMAIN df :
          /\ IsDateCell(RowId(df[i]), "PO Sent to Vendor Date")
          /\ df[i]["lead_time_days"] = NaN
          /\ df[i]["delay_days"] = NaN
    /\ \E i \in DOMAIN df : df[i]["lead_time_days"] = {0}

\* C7: the filtered set is the records whose Country is selected and whose
\* Shipment Mode is selected, an empty selection leaving its dimension
\* unfiltered; a record with an absent value is excluded only by a non-empty
\* selection on that dimension.
Passes(r, col, sel) == sel = {} \/ (r[col] # NaN /\ Val(r[col]) \in sel)

C7_ViewSelection ==
    pc = "shown" =>
       /\ df_filtered = SelectSeq(df, LAMBDA r :
             Passes(r, "Country", country_filter)
             /\ Passes(r, "Shipment Mode", mode_filter))
       /\ (country_filter = {} /\ mode_filter = {}) => df_filtered = df
       /\ \A i \in DOMAIN df :
             (df[i]["Country"] = NaN /\ country_filter = {}
                /\ Passes(df[i], "Shipment Mode", mode_filter))
             => RowId(df[i]) \in Ids(df_filtered)
       /\ \A i \in DOMAIN df :
             (df[i]["Shipment Mode"] = NaN /\ mode_filter = {}
                /\ Passes(df[i], "Country", country_filter))
             => RowId(df[i]) \in Ids(df_filtered)
       /\ \A i \in DOMAIN df :
             \/ (df[i]["Country"] = NaN /\ country_filter # {})
             \/ (df[i]["Shipment Mode"] = NaN /\ mode_filter # {})
             => RowId(df[i]) \notin Ids(df_filtered)

\* one dimension filtered and the other not, with a record of absent Country
\* excluded and a record of absent Shipment Mode kept
C7_Witness ==
    /\ pc = "shown"
    /\ country_filter # {} /\ mode_filter = {}
    /\ \E i \in DOMAIN df : df[i]["Country"] = NaN
    /\ \E i \in DOMAIN df_filtered : df_filtered[i]["Shipment Mode"] = NaN
    /\ Len(df_filtered) < Len(df)

\* C8: each aggregate table has exactly one row per distinct present value of
\* its dimension in the filtered set, none with total_shipments = 0; the
\* totals add up to the number of records with a present value; an empty
\* filtered set gives empty tables.
PresentCount(rows, col) == Cardinality({i \in DOMAIN rows : rows[i][col] # NaN})

C8_OneRowPerValue ==
    pc = "shown" =>
       /\ {country_stats[j].Country : j \in DOMAIN country_stats}
             = Uniques(df_filtered, "Country")
       /\ Len(country_stats) = Cardinality(Uniques(df_filtered, "Country"))
       /\ \A j \in DOMAIN country_stats : country_stats[j].total_shipments > 0
       /\ SumSeq([j \in DOMAIN country_stats |-> country_stats[j].total_shipments])
             = PresentCount(df_filtered, "Country")
       /\ {shipment_stats[j].Shipment_Mode : j \in DOMAIN shipment_stats}
             = Uniques(df_filtered, "Shipment Mode")
       /\ Len(shipment_stats) = Cardinality(Uniques(df_filtered, "Shipment Mode"))
       /\ \A j \in DOMAIN shipment_stats : shipment_stats[j].total_shipments > 0
       /\ SumSeq([j \in DOMAIN shipment_stats |-> shipment_stats[j].total_shipments])
             = PresentCount(df_filtered, "Shipment Mode")
       /\ df_filtered = <<>> => country_stats = <<>> /\ shipment_stats = <<>>

\* two countries and a record without Country in the filtered set
C8_Witness ==
    /\ pc = "shown"
    /\ Len(country_stats) = 2
    /\ \E i \in DOMAIN df_filtered : df_filtered[i]["Country"] = NaN
    /\ Len(shipment_stats) >= 1

\* the selections can leave nothing: the tables are then empty
C8_WitnessEmpty ==
    pc = "shown" /\ Len(df) > 0 /\ df_filtered = <<>> /\ country_stats = <<>>

\* C9: in every row of both tables late_shipments counts the group's records
\* with is_late = 1 and late_ratio is late_shipments / total_shipments * 100
\* to 2 decimals, within [0, 100], of a group that is not empty; three Togo
\* records with delays 5, 5 and -2 give total 3, late 2, ratio 66.67.
LateIn(col, k) ==
    Cardinality({i \in DOMAIN df_filtered :
                    df_filtered[i][col] = Some(k) /\ df_filtered[i]["is_late"] = 1})

RatioOk(row) ==
    /\ row.total_shipments > 0
    /\ row.late_ratio >= 0 /\ row.late_ratio <= 100 * 100
    /\ LET exact == row.late_shipments * 100 * 100
           got == row.late_ratio * row.total_shipments
       IN 2 * (IF got >= exact THEN got - exact ELSE exact - got)
             <= row.total_shipments

TogoDelays ==
    LET g == {i \in DOMAIN df_filtered : df_filtered[i]["Country"] = Some("Togo")}
    IN [d \in {5, -2} |-> Cardinality({i \in g : df_filtered[i]["delay_days"] = {d}})]

TogoScenario ==
    /\ Cardinality({i \in DOMAIN df_filtered :
                       df_filtered[i]["Country"] = Some("Togo")}) = 3
    /\ TogoDelays[5] = 2
    /\ TogoDelays[-2] = 1

C9_LateRatio ==
    pc = "shown" =>
       /\ \A j \in DOMAIN country_stats :
             /\ country_stats[j].late_shipments
                   = LateIn("Country", country_stats[j].Country)
             /\ RatioOk(country_stats[j])
       /\ \A j \in DOMAIN shipment_stats :
             /\ shipment_stats[j].late_shipments
                   = LateIn("Shipment Mode", shipment_stats[j].Shipment_Mode)
             /\ RatioOk(shipment_stats[j])
       /\ TogoScenario =>
             \E j \in DOMAIN country_stats :
                /\ country_stats[j].Country = "Togo"
                /\ country_stats[j].total_shipments = 3
                /\ country_stats[j].late_shipments = 2
                /\ country_stats[j].late_ratio = 6667

\* the Togo scenario, aggregated
C9_Witness ==
    /\ pc = "shown"
    /\ TogoScenario
    /\ \E j \in DOMAIN country_stats : country_stats[j].late_ratio = 6667

\* ---- C10: top-N selection
\* a stable descending sort: among equal values the group order is kept
RECURSIVE StableDesc(_, _)
StableDesc(s, left) ==
    IF left = {} THEN <<>>
    ELSE LET i == CHOOSE i \in left :
                     \A j \in left : \/ s[j].value < s[i].value
                                     \/ (s[j].value = s[i].value /\ i <= j)
         IN <<s[i]>> \o StableDesc(s, left \ {i})

\* C10 (as stated): the top K keep the group order among equal values.
C10_StableTop ==
    pc = "shown" =>
       /\ top_countries
             = HeadK(StableDesc(QuantityByCountry(country_stats),
                                DOMAIN country_stats), 10)
       /\ product_stats
             = HeadK(StableDesc(ProductSums(df_filtered),
                                DOMAIN ProductSums(df_filtered)), 15)

\* top is a top-K of the entries all: min(K, n) distinct entries of all, in
\* descending order, none smaller than an entry left out
IsTopK(top, all, k) ==
    /\ Len(top) = (IF Len(all) <= k THEN Len(all) ELSE k)
    /\ \A a \in DOMAIN top : \E b \in DOMAIN all : top[a] = all[b]
    /\ \A a, b \in DOMAIN top : a < b =>
          top[a].value >= top[b].value /\ top[a].key # top[b].key
    /\ \A b \in DOMAIN all :
          (\A a \in DOMAIN top : top[a].key # all[b].key) =>
             \A a \in DOMAIN top : top[a].value >= all[b].value

\* C10 (amended): the result is K groups with the largest metric in descending
\* order, all groups when fewer than K exist; the order among groups of equal
\* metric, and which of the groups tied at the cut are taken, is not fixed.
C10_TopK ==
    pc = "shown" =>
       /\ IsTopK(top_countries, QuantityByCountry(country_stats), 10)
       /\ IsTopK(product_stats, ProductSums(df_filtered), 15)

\* more groups than K in both views, with a tie the sort resolved against
\* the group order
C10_Witness ==
    /\ pc = "shown"
    /\ Len(country_stats) > 10 /\ Len(top_countries) = 10
    /\ Len(ProductSums(df_filtered)) > 15 /\ Len(product_stats) = 15
    /\ top_countries
          # HeadK(StableDesc(QuantityByCountry(country_stats),
                             DOMAIN country_stats), 10)

====
